---- MODULE Spec2Model ----
(***************************************************************************)
(* Customer CRUD service of server.js: the express handlers for /health,   *)
(* /customers (GET, POST) and /customers/:id (PATCH, PUT, DELETE), the      *)
(* express-validator chains in front of them, the mariadb connection pool  *)
(* they share and the customer table they write.                           *)
(*                                                                         *)
(* A string is a tuple of one-character strings; an optional value is a    *)
(* tuple of length at most one (<<>> is undefined / SQL NULL).             *)
(***************************************************************************)
EXTENDS Integers, Sequences, FiniteSets, Bags, TLC

VARIABLES
  customer,   \* the customer table: sequence of rows, in insertion order
  pool,       \* number of pooled connections currently checked out
  inflight,   \* bag of requests whose handler is suspended at an await
  resp,       \* the response sent by the last step (NoResp when none was)
  s,          \* titleCase harness: the input string
  once,       \* titleCase harness: titleCase(s), when computed
  twice       \* titleCase harness: titleCase(titleCase(s)), when computed

vars == <<customer, pool, inflight, resp, s, once, twice>>

connectionLimit == 5
MaxInflight == 2
MaxLen == 4

None == <<>>
Some(x) == <<x>>

(***************************************************************************)
(* Characters                                                              *)
(***************************************************************************)
Lowers == <<"a","b","c","d","e","f","g","h","i","j","k","l","m",
            "n","o","p","q","r","s","t","u","v","w","x","y","z">>
Uppers == <<"A","B","C","D","E","F","G","H","I","J","K","L","M",
            "N","O","P","Q","R","S","T","U","V","W","X","Y","Z">>
Digits == {"0","1","2","3","4","5","6","7","8","9"}
Whitespace == {" ", "\t", "\n"}

IsLower(c) == \E i \in 1..26 : Lowers[i] = c
IsUpper(c) == \E i \in 1..26 : Uppers[i] = c
\* \w of the regular expression: [A-Za-z0-9_]
IsWordChar(c) == IsLower(c) \/ IsUpper(c) \/ c \in Digits \/ c = "_"

toUpperChar(c) == IF IsLower(c) THEN Uppers[CHOOSE i \in 1..26 : Lowers[i] = c] ELSE c
toLowerChar(c) == IF IsUpper(c) THEN Lowers[CHOOSE i \in 1..26 : Uppers[i] = c] ELSE c

(***************************************************************************)
(* String helpers                                                          *)
(***************************************************************************)
RECURSIVE trimStart(_)
trimStart(str) ==
  IF str # <<>> /\ Head(str) \in Whitespace THEN trimStart(Tail(str)) ELSE str

RECURSIVE trimEnd(_)
trimEnd(str) ==
  IF str # <<>> /\ str[Len(str)] \in Whitespace
  THEN trimEnd(SubSeq(str, 1, Len(str) - 1))
  ELSE str

\* a trim that strips at most one whitespace character from each end
trimOne(str) ==
  LET a == IF str # <<>> /\ Head(str) \in Whitespace THEN Tail(str) ELSE str
  IN  IF a # <<>> /\ a[Len(a)] \in Whitespace THEN SubSeq(a, 1, Len(a) - 1) ELSE a

\* String.prototype.trim
trim(str) == trimEnd(trimStart(str))

\* String.prototype.toLowerCase
toLowerCase(str) == [i \in 1..Len(str) |-> toLowerChar(str[i])]

\* a replace that capitalises only at the start and after whitespace
RECURSIVE replaceAfterSpace(_, _)
replaceAfterSpace(str, prev) ==
  IF str = <<>> THEN <<>>
  ELSE LET c == Head(str)
       IN  <<IF IsLower(c) /\ (prev = "" \/ prev \in Whitespace)
             THEN toUpperChar(c) ELSE c>>
           \o replaceAfterSpace(Tail(str), c)

\* .replace(/\b[a-z]/g, c => c.toUpperCase()): a left-to-right scan; prev is
\* the character before the current one ("" at the start of the string)
RECURSIVE replaceWordStart(_, _)
replaceWordStart(str, prev) ==
  IF str = <<>> THEN <<>>
  ELSE LET c == Head(str)
       IN  <<IF IsLower(c) /\ ~IsWordChar(prev) THEN toUpperChar(c) ELSE c>>
           \o replaceWordStart(Tail(str), c)

\* the reference transform: whitespace-delimited words, on the trimmed string
titleCaseWhitespace(str) == replaceAfterSpace(toLowerCase(trim(str)), "")

\* titleCase of server.js, on a defined argument
titleCase(str) == replaceWordStart(toLowerCase(trim(str)), "")

\* validator.js escape(), the sanitizer behind .escape() (the grave accent, which
\* it maps to &#96;, cannot be written in a string literal here and is left out
\* of the alphabet)
escapeChar(c) ==
  CASE c = "&"  -> <<"&","a","m","p",";">>
    [] c = "\"" -> <<"&","q","u","o","t",";">>
    [] c = "'"  -> <<"&","#","x","2","7",";">>
    [] c = "<"  -> <<"&","l","t",";">>
    [] c = ">"  -> <<"&","g","t",";">>
    [] c = "/"  -> <<"&","#","x","2","F",";">>
    [] c = "\\" -> <<"&","#","x","5","C",";">>
    [] OTHER    -> <<c>>

RECURSIVE escape(_)
escape(str) == IF str = <<>> THEN <<>> ELSE escapeChar(Head(str)) \o escape(Tail(str))

(***************************************************************************)
(* express-validator chains.  A sanitizer writes its result back into the  *)
(* request; a chain marked optional() leaves an undefined field alone.     *)
(***************************************************************************)
\* body(f).trim() / param(f).trim(): an undefined field is sanitized as ''
sanitizeRequired(v) == trim(IF v = None THEN <<>> ELSE v[1])
\* .trim() without optional(): an undefined field becomes ''
sanitizeToString(v) == Some(trim(IF v = None THEN <<>> ELSE v[1]))
\* body(f).optional().trim()
sanitizeOptional(v) == IF v = None THEN None ELSE Some(trim(v[1]))
\* body('cust_city').optional().trim().escape()
sanitizeCity(v) == IF v = None THEN None ELSE Some(escape(trim(v[1])))

\* req.body.cust_city ? titleCase(req.body.cust_city) : null
cityOrNull(v) == IF v = None \/ v[1] = <<>> THEN None ELSE Some(titleCase(v[1]))

(***************************************************************************)
(* The customer table                                                      *)
(***************************************************************************)
Row(code, name, city) == [cust_code |-> code, cust_name |-> name, cust_city |-> city]

HasCode(t, code) == \E i \in 1..Len(t) : t[i].cust_code = code

\* affectedRows of an UPDATE or DELETE ... WHERE cust_code=? (the connector
\* reports the rows matched)
affectedRows(t, code) == Cardinality({i \in 1..Len(t) : t[i].cust_code = code})

\* the unique key on cust_code: the INSERT is rejected when the code is taken
duplicateKey(t, row) == HasCode(t, row.cust_code)

\* INSERT INTO customer (cust_code, cust_name, cust_city) VALUES (?, ?, ?)
sqlInsert(t, row) == Append(t, row)

\* an UPDATE that writes every column, with an empty name or a NULL city for a
\* column that was not supplied
sqlUpdateAllColumns(t, code, setName, setCity) ==
  [i \in 1..Len(t) |->
     IF t[i].cust_code = code
     THEN Row(t[i].cust_code,
              IF setName = None THEN <<>> ELSE setName[1],
              IF setCity = None THEN None ELSE setCity[1])
     ELSE t[i]]

\* UPDATE customer SET <fields> WHERE cust_code=?; setName and setCity are
\* None for a column that is not in the SET list, Some(value) otherwise
sqlUpdate(t, code, setName, setCity) ==
  [i \in 1..Len(t) |->
     IF t[i].cust_code = code
     THEN Row(t[i].cust_code,
              IF setName = None THEN t[i].cust_name ELSE setName[1],
              IF setCity = None THEN t[i].cust_city ELSE setCity[1])
     ELSE t[i]]

\* DELETE FROM customer WHERE cust_code=?
sqlDelete(t, code) == SelectSeq(t, LAMBDA row : row.cust_code # code)

(***************************************************************************)
(* Requests, responses and the pool                                        *)
(***************************************************************************)
\* what a suspended handler holds: the route, the sanitized path or body key,
\* the values it will bind, and where it is suspended ("wait": queued in
\* pool.getConnection(), "query": holding a connection, awaiting c.query())
\* raw is the request as the client sent it, kept for stating properties
Request(op, code, name, city, raw) ==
  [op |-> op, code |-> code, name |-> name, city |-> city, pc |-> "wait", raw |-> raw]

Raw(code, name, city) == [code |-> code, name |-> name, city |-> city]

NoResp == [op |-> "none", status |-> 0, customer |-> None, req |-> None]
\* status and customer are what the client receives; req is the request it answers
Response(r, status, body) == [op |-> r.op, status |-> status, customer |-> body, req |-> Some(r)]

InFlight == BagToSet(inflight)
Without(r) == inflight (-) SetToBag({r})
With(b, r) == b (+) SetToBag({r})

\* await pool.getConnection(): a free connection is handed out at once,
\* otherwise the request is queued
getConnection(req) ==
  /\ IF pool < connectionLimit
     THEN /\ pool' = pool + 1
          /\ inflight' = With(inflight, [req EXCEPT !.pc = "query"])
     ELSE /\ pool' = pool
          /\ inflight' = With(inflight, req)
  /\ resp' = NoResp
  /\ UNCHANGED customer

\* c.release(): the connection goes to a queued request if there is one,
\* otherwise back to the idle list; rest is the in-flight bag without the caller
release(rest) ==
  \/ /\ \E w \in BagToSet(rest) :
          /\ w.pc = "wait"
          /\ inflight' = With(rest (-) SetToBag({w}), [w EXCEPT !.pc = "query"])
     /\ pool' = pool
  \/ /\ \A w \in BagToSet(rest) : w.pc # "wait"
     /\ inflight' = rest
     /\ pool' = pool - 1

\* the catch block: the handler ends without c.release()
noRelease(rest) ==
  /\ inflight' = rest
  /\ pool' = pool

\* res.status(400) from handleValidation or from the handler, before any await
reject(req) ==
  /\ resp' = Response(req, 400, None)
  /\ UNCHANGED <<customer, pool, inflight>>

harness == <<s, once, twice>>

(***************************************************************************)
(* Handlers, up to their first await                                       *)
(***************************************************************************)
\* GET /health
GetHealth ==
  /\ getConnection(Request("health", <<>>, None, None, Raw(<<>>, None, None)))
  /\ UNCHANGED harness

\* GET /customers
GetCustomers ==
  /\ getConnection(Request("list", <<>>, None, None, Raw(<<>>, None, None)))
  /\ UNCHANGED harness

\* POST /customers
PostCustomer(code, name, city) ==
  LET cust_code == sanitizeRequired(Some(code))
      cust_name == sanitizeRequired(name)
      cust_city == sanitizeCity(city)
  IN  /\ IF cust_code = <<>> \/ cust_name = <<>>
         THEN reject(Request("post", cust_code, Some(cust_name), cust_city,
                             Raw(code, name, city)))
         ELSE getConnection(Request("post", trim(cust_code), Some(titleCase(cust_name)),
                                    cityOrNull(cust_city), Raw(code, name, city)))
      /\ UNCHANGED harness

\* PATCH /customers/:id
PatchCustomer(id, name, city) ==
  LET code      == sanitizeRequired(Some(id))
      cust_name == sanitizeOptional(name)
      cust_city == sanitizeOptional(city)
      setName   == IF cust_name = None THEN None ELSE Some(titleCase(cust_name[1]))
      setCity   == IF cust_city = None THEN None ELSE Some(titleCase(cust_city[1]))
  IN  /\ IF code = <<>> \/ (setName = None /\ setCity = None)
         THEN reject(Request("patch", code, cust_name, cust_city, Raw(id, name, city)))
         ELSE getConnection(Request("patch", code, setName, setCity, Raw(id, name, city)))
      /\ UNCHANGED harness

\* PUT /customers/:id
PutCustomer(id, name, city) ==
  LET code      == sanitizeRequired(Some(id))
      cust_name == sanitizeRequired(name)
      cust_city == sanitizeOptional(city)
  IN  /\ IF code = <<>> \/ cust_name = <<>>
         THEN reject(Request("put", code, Some(cust_name), cust_city, Raw(id, name, city)))
         ELSE getConnection(Request("put", code, Some(cust_name), cust_city, Raw(id, name, city)))
      /\ UNCHANGED harness

\* DELETE /customers/:id
DeleteCustomer(id) ==
  LET code == sanitizeRequired(Some(id))
  IN  /\ IF code = <<>>
         THEN reject(Request("delete", code, None, None, Raw(id, None, None)))
         ELSE getConnection(Request("delete", code, None, None, Raw(id, None, None)))
      /\ UNCHANGED harness

(***************************************************************************)
(* Handlers, from the connection to the response                           *)
(***************************************************************************)
\* pool.getConnection() rejects after acquireTimeout: the catch block answers 500
AcquireTimeout(r) ==
  /\ r \in InFlight /\ r.pc = "wait"
  /\ inflight' = Without(r)
  /\ resp' = Response(r, 500, None)
  /\ UNCHANGED <<customer, pool, harness>>

\* GET /health and GET /customers: SELECT, release, answer
Select(r) ==
  /\ r \in InFlight /\ r.pc = "query" /\ r.op \in {"health", "list"}
  /\ release(Without(r))
  /\ resp' = Response(r, 200, None)
  /\ UNCHANGED <<customer, harness>>

\* a POST handler that does not await c.query(): it releases and answers 201
\* whether or not the INSERT is rejected
InsertWithoutAwait(r) ==
  /\ r \in InFlight /\ r.pc = "query" /\ r.op = "post"
  /\ LET payload == Row(r.code, r.name[1], r.city)
     IN  /\ customer' = IF duplicateKey(customer, payload) THEN customer
                        ELSE sqlInsert(customer, payload)
         /\ release(Without(r))
         /\ resp' = Response(r, 201, Some(payload))
  /\ UNCHANGED harness

\* POST /customers: INSERT, release, 201; a rejected INSERT goes to the catch block
Insert(r) ==
  /\ r \in InFlight /\ r.pc = "query" /\ r.op = "post"
  /\ LET payload == Row(r.code, r.name[1], r.city)
     IN  IF duplicateKey(customer, payload)
         THEN /\ customer' = customer
              /\ noRelease(Without(r))
              /\ resp' = Response(r, 500, None)
         ELSE /\ customer' = sqlInsert(customer, payload)
              /\ release(Without(r))
              /\ resp' = Response(r, 201, Some(payload))
  /\ UNCHANGED harness

\* PATCH /customers/:id: UPDATE of the supplied fields, release, 404 or 200
Update(r) ==
  /\ r \in InFlight /\ r.pc = "query" /\ r.op = "patch"
  /\ customer' = sqlUpdate(customer, r.code, r.name,
                           IF r.city = None THEN None ELSE Some(r.city))
  /\ release(Without(r))
  /\ resp' = Response(r, IF affectedRows(customer, r.code) = 0 THEN 404 ELSE 200, None)
  /\ UNCHANGED harness

\* PUT /customers/:id: UPDATE of both fields, release, 404 or 200
Replace(r) ==
  /\ r \in InFlight /\ r.pc = "query" /\ r.op = "put"
  /\ customer' = sqlUpdate(customer, r.code, Some(titleCase(r.name[1])),
                           Some(cityOrNull(r.city)))
  /\ release(Without(r))
  /\ resp' = Response(r, IF affectedRows(customer, r.code) = 0 THEN 404 ELSE 200, None)
  /\ UNCHANGED harness

\* DELETE /customers/:id: DELETE, release, 404 or 200
Delete(r) ==
  /\ r \in InFlight /\ r.pc = "query" /\ r.op = "delete"
  /\ customer' = sqlDelete(customer, r.code)
  /\ release(Without(r))
  /\ resp' = Response(r, IF affectedRows(customer, r.code) = 0 THEN 404 ELSE 200, None)
  /\ UNCHANGED harness

(***************************************************************************)
(* Inputs and the specification                                            *)
(***************************************************************************)
CodeInputs == { <<"c", " ">>, <<"d">>, <<" ">> }
NameInputs == { None, Some(<<"a", "L">>) }
CityInputs == { None, Some(<<" ", "n", "y">>) }

\* a wider choice of field values, for requests served one at a time
WideNameInputs == { None, Some(<<" ">>), Some(<<"a", "L">>) }
WideCityInputs == { None, Some(<<"a", "&">>) }

Init ==
  /\ customer = <<>>
  /\ pool = 0
  /\ inflight = EmptyBag
  /\ resp = NoResp
  /\ s = <<>>
  /\ once = None
  /\ twice = None

\* the bound on concurrency: a request arrives while fewer than MaxInflight
\* handlers are suspended
Accepting == BagCardinality(inflight) < MaxInflight

\* no handler is suspended
Idle == BagCardinality(inflight) = 0

\* a request arrives and its handler runs to its first await, or a suspended
\* handler resumes and runs to its response
Next ==
  \/ Accepting /\ GetHealth
  \/ Accepting /\ GetCustomers
  \/ \E code \in CodeInputs, name \in NameInputs, city \in CityInputs :
       Accepting /\ PostCustomer(code, name, city)
  \/ \E id \in CodeInputs, name \in NameInputs, city \in CityInputs :
       Accepting /\ PatchCustomer(id, name, city)
  \/ \E id \in CodeInputs, name \in NameInputs, city \in CityInputs :
       Accepting /\ PutCustomer(id, name, city)
  \/ \E id \in CodeInputs : Accepting /\ DeleteCustomer(id)
  \/ \E r \in InFlight : AcquireTimeout(r)
  \/ \E r \in InFlight : Select(r)
  \/ \E r \in InFlight : Insert(r)
  \/ \E r \in InFlight : Update(r)
  \/ \E r \in InFlight : Replace(r)
  \/ \E r \in InFlight : Delete(r)

\* requests served one at a time, with the wider inputs
NextWide ==
  \/ Idle /\ GetHealth
  \/ Idle /\ GetCustomers
  \/ \E code \in CodeInputs, name \in WideNameInputs, city \in WideCityInputs :
       Idle /\ PostCustomer(code, name, city)
  \/ \E id \in CodeInputs, name \in WideNameInputs, city \in WideCityInputs :
       Idle /\ PatchCustomer(id, name, city)
  \/ \E id \in CodeInputs, name \in WideNameInputs, city \in WideCityInputs :
       Idle /\ PutCustomer(id, name, city)
  \/ \E id \in CodeInputs : Idle /\ DeleteCustomer(id)
  \/ \E r \in InFlight : AcquireTimeout(r)
  \/ \E r \in InFlight : Select(r)
  \/ \E r \in InFlight : Insert(r)
  \/ \E r \in InFlight : Update(r)
  \/ \E r \in InFlight : Replace(r)
  \/ \E r \in InFlight : Delete(r)

Spec == Init /\ [][Next]_vars
SpecWide == Init /\ [][NextWide]_vars

(***************************************************************************)
(* titleCase on its own: every string over Alphabet of length <= MaxLen    *)
(***************************************************************************)
Alphabet == {"a", "B", " ", "'", "-", "1", "_"}
Strings == UNION {[1..n -> Alphabet] : n \in 0..MaxLen}

InitTitle ==
  /\ customer = <<>>
  /\ pool = 0
  /\ inflight = EmptyBag
  /\ resp = NoResp
  /\ s \in Strings
  /\ once = None
  /\ twice = None

ApplyOnce ==
  /\ once = None
  /\ once' = Some(titleCase(s))
  /\ UNCHANGED <<customer, pool, inflight, resp, s, twice>>

ApplyTwice ==
  /\ once # None /\ twice = None
  /\ twice' = Some(titleCase(once[1]))
  /\ UNCHANGED <<customer, pool, inflight, resp, s, once>>

NextTitle == ApplyOnce \/ ApplyTwice

SpecTitle == InitTitle /\ [][NextTitle]_vars

(***************************************************************************)
(* Properties                                                              *)
(***************************************************************************)
\* the step in which the handler of in-flight request r sends its response
Finishes(r) ==
  /\ resp'.req = Some(r)
  /\ \/ AcquireTimeout(r) \/ Select(r) \/ Insert(r)
     \/ Update(r) \/ Replace(r) \/ Delete(r)

Codes(t) == [i \in 1..Len(t) |-> t[i].cust_code]

\* the title-cased value of an optional field
Titled(v) == IF v = None THEN None ELSE Some(titleCase(v[1]))

\* exactly one of cust_name and cust_city was supplied
OneField(raw) == (raw.name = None) # (raw.city = None)

\* C1: every handler releases its connection before it answers, on success and
\* on failure: the connections checked out never outnumber the requests in
\* flight, and with no request in flight every pooled connection is free.
C1_ReleasedOnEveryPath ==
  /\ pool <= BagCardinality(inflight)
  /\ BagCardinality(inflight) = 0 => pool = 0

\* C2: a PATCH that supplies exactly one of cust_city and cust_name binds the
\* title-cased value of that field and nothing for the other, and its UPDATE
\* changes that column of the addressed row to it and nothing else: the other
\* column, the cust_code and every other row stay as they were.
C2_PatchChangesOnlySuppliedField ==
  /\ [](\A r \in InFlight :
          (r.op = "patch" /\ OneField(r.raw))
            => /\ r.code = trim(r.raw.code)
               /\ r.name = Titled(r.raw.name)
               /\ r.city = Titled(r.raw.city))
  /\ [][ \A r \in InFlight :
           (r.op = "patch" /\ OneField(r.raw) /\ Finishes(r))
             => /\ Len(customer') = Len(customer)
                /\ (Update(r) /\ HasCode(customer, r.code)) => resp'.status = 200
                /\ \A i \in 1..Len(customer) :
                     customer'[i] =
                       IF customer[i].cust_code = r.code /\ resp'.status = 200
                       THEN Row(customer[i].cust_code,
                                IF r.raw.name = None THEN customer[i].cust_name
                                ELSE titleCase(r.raw.name[1]),
                                IF r.raw.city = None THEN customer[i].cust_city
                                ELSE Some(titleCase(r.raw.city[1])))
                       ELSE customer[i]
       ]_vars

\* a city-only PATCH has been answered 200: the addressed row has the new city
\* and its old name, next to another row
C2_Witness ==
  /\ resp.op = "patch" /\ resp.status = 200
  /\ resp.req[1].raw.name = None
  /\ resp.req[1].raw.city = Some(<<" ", "n", "y">>)
  /\ Len(customer) = 2
  /\ \E i \in 1..2 :
       /\ customer[i].cust_code = resp.req[1].code
       /\ customer[i].cust_city = Some(<<"N", "y">>)
       /\ customer[i].cust_name = <<"A", "l">>

\* C3: a PUT with a name and no cust_city, addressed at an existing row whose
\* city is set, answers 200 and leaves the row with the title-cased name and a
\* null city; a PATCH with the same body leaves the city as it was.
C3_ReplaceClearsOmittedCity ==
  [][ \A r \in InFlight :
        ( /\ r.raw.name # None /\ r.raw.city = None
          /\ \E i \in 1..Len(customer) :
                customer[i].cust_code = r.code /\ customer[i].cust_city # None
          /\ Finishes(r) )
        => /\ r.op = "put" =>
                /\ resp'.status = 200
                /\ Len(customer') = Len(customer)
                /\ \A i \in 1..Len(customer) :
                     customer[i].cust_code = r.code =>
                       customer'[i] = Row(r.code, titleCase(r.raw.name[1]), None)
           /\ r.op = "patch" =>
                /\ Len(customer') = Len(customer)
                /\ \A i \in 1..Len(customer) :
                     customer[i].cust_code = r.code =>
                       customer'[i].cust_city = customer[i].cust_city
    ]_vars

\* C4: a PATCH that supplies neither cust_name nor cust_city answers 400 and
\* touches nothing: no connection is acquired, no statement is issued, the
\* table is unchanged, whether or not the code exists.
C4_EmptyPatchIs400 ==
  [][ \A id \in CodeInputs :
        PatchCustomer(id, None, None)
          => /\ resp'.op = "patch" /\ resp'.status = 400
             /\ customer' = customer
             /\ pool' = pool
             /\ inflight' = inflight
    ]_vars

\* an empty PATCH addressed at an existing code has been answered 400
C4_Witness ==
  /\ resp.op = "patch" /\ resp.status = 400
  /\ resp.req[1].raw.name = None /\ resp.req[1].raw.city = None
  /\ HasCode(customer, resp.req[1].code)

\* C5: a PATCH, PUT or DELETE addressed at a code that matches no row answers
\* 404 and leaves the table unchanged; addressed at an existing row it never
\* answers 404.
C5_MissingCodeIs404 ==
  [][ \A r \in InFlight :
        (r.op \in {"patch", "put", "delete"} /\ Finishes(r))
          => IF HasCode(customer, r.code)
             THEN resp'.status # 404
             ELSE resp'.status = 404 /\ customer' = customer
    ]_vars

\* C6: a request whose cust_name is supplied and empty after trimming is
\* answered 400 before any store access, in POST, PUT and PATCH alike (it never
\* reaches pool.getConnection()), so no stored row has an empty cust_name.
C6_EmptyNameRejected ==
  /\ \A r \in InFlight :
       (r.op \in {"post", "put", "patch"} /\ r.raw.name # None)
         => trim(r.raw.name[1]) # <<>>
  /\ \A i \in 1..Len(customer) : customer[i].cust_name # <<>>

\* C7: a valid POST (non-empty code and name, code not yet present) answers 201
\* with the record (trimmed code, title-cased name, title-cased city or null
\* when omitted), and the stored row equals the returned record.
C7_CreateReturnsNormalizedRecord ==
  /\ [](\A r \in InFlight :
          r.op = "post"
            => /\ r.code = trim(r.raw.code)
               /\ r.name = Titled(r.raw.name)
               /\ r.city = Titled(r.raw.city))
  /\ []((resp.op = "post" /\ resp.status = 400)
          => \/ trim(resp.req[1].raw.code) = <<>>
             \/ resp.req[1].raw.name = None
             \/ trim(resp.req[1].raw.name[1]) = <<>>)
  /\ [][ \A r \in InFlight :
           (r.op = "post" /\ ~HasCode(customer, r.code) /\ Finishes(r))
             => /\ resp'.status = 201
                /\ resp'.customer = Some(Row(r.code, r.name[1], r.city))
                /\ customer' = Append(customer, resp'.customer[1])
       ]_vars

\* C8: a POST whose cust_code is taken answers 500, never 201, and leaves the
\* table unchanged; no two rows ever share a cust_code; and no step changes
\* the cust_code of a row (rows are only appended or removed).
C8_CodeUniqueAndImmutable ==
  [][ /\ \A r \in InFlight :
           (r.op = "post" /\ HasCode(customer, r.code) /\ Finishes(r))
             => resp'.status = 500 /\ customer' = customer
      /\ \A i, j \in 1..Len(customer') :
           i # j => customer'[i].cust_code # customer'[j].cust_code
      /\ \/ Codes(customer') = Codes(customer)
         \/ \E c \in {trim(x) : x \in CodeInputs} :
              \/ /\ ~HasCode(customer, c)
                 /\ Codes(customer') = Append(Codes(customer), c)
              \/ Codes(customer') = SelectSeq(Codes(customer), LAMBDA x : x # c)
    ]_vars

\* a POST of a taken code has run its INSERT and been answered 500 while the
\* table holds two rows
C8_Witness ==
  /\ resp.op = "post" /\ resp.status = 500
  /\ resp.req[1].pc = "query"
  /\ HasCode(customer, resp.req[1].code)
  /\ Len(customer) = 2

\* C9: titleCase is idempotent: titleCase(titleCase(s)) = titleCase(s).
C9_TitleCaseIdempotent ==
  twice # None => twice[1] = once[1]

\* titleCase has been applied twice to a string that it changes
C9_Witness ==
  /\ twice # None
  /\ once[1] # s
  /\ once[1] # <<>>

\* C10: titleCase(s) is the reference transform: lowercase everything, then
\* uppercase the first letter of each whitespace-delimited word and nothing
\* else (the reference is applied to the trimmed string, as titleCase trims).
C10_WhitespaceDelimitedWords ==
  once # None => once[1] = titleCaseWhitespace(s)

\* the part of str between its first and last non-whitespace characters
Inner(str) ==
  LET idx == {i \in 1..Len(str) : str[i] \notin Whitespace}
  IN  IF idx = {} THEN <<>>
      ELSE SubSeq(str, CHOOSE i \in idx : \A j \in idx : i <= j,
                       CHOOSE i \in idx : \A j \in idx : j <= i)

\* C10 as amended: titleCase(s) is the trimmed string with every letter
\* lowercased, except that a letter at the start or right after a character
\* that is no letter, digit or underscore is uppercased.
C10_WordBoundaryTitleCase ==
  once # None =>
    LET t == Inner(s)
    IN  /\ Len(once[1]) = Len(t)
        /\ \A i \in 1..Len(t) :
             once[1][i] =
               IF (IsLower(t[i]) \/ IsUpper(t[i])) /\ (i = 1 \/ ~IsWordChar(t[i-1]))
               THEN toUpperChar(toLowerChar(t[i]))
               ELSE toLowerChar(t[i])

\* titleCase has been applied to a string with a letter right after an
\* apostrophe, and has uppercased that letter
C10_Witness ==
  /\ once # None
  /\ \E i \in 2..Len(s) :
       /\ s[i-1] = "'" /\ s[i] = "a"
       /\ Inner(s) = s
       /\ once[1][i] = "A"

====
